---- MODULE Spec2Model ----
(***************************************************************************)
(* A model of github.com/doom/go-itertools (itertools.go).                 *)
(*                                                                         *)
(* A traversal of a sequence value is a small program: it requests         *)
(* elements from its inputs (a range loop resuming its source, or a call   *)
(* of the next function of an iter.Pull cursor), it invokes the consumer   *)
(* (yield), and it returns, running its deferred cursor releases.  The     *)
(* consumer is arbitrary: every invocation may answer "continue" or        *)
(* "stop".  Inputs are re-traversable slices (FromSlice) unless stated.    *)
(***************************************************************************)
EXTENDS Integers, Sequences, FiniteSets, TLC

\* ---------------------------------------------------------------- bounds
MaxLen == 3        \* longest input slice
MaxVal == 1        \* element values are 0..MaxVal
MaxOuter == 2      \* longest outer sequence given to Flatten
MaxInner == 2      \* longest inner sequence given to Flatten
MaxOut == 7        \* Cycle is cut off after this many outputs
MaxN == 4          \* largest count given to Take, Drop and RepeatN
MaxSize == 3       \* largest chunk size given to Chunks
MaxRuns == 3
MaxCalls == 5       \* traversals made of one sequence value

Vals == 0..MaxVal
Keys == 0..1
Zero == 0          \* the zero value of the element type
Min2(a, b) == IF a <= b THEN a ELSE b

SeqsUpTo(S, L) == UNION {[1..m -> S] : m \in 0..L}
Slices == SeqsUpTo(Vals, MaxLen)

VARIABLES
    op,            \* the exported function whose result is traversed
    seq1, seq2,    \* the input sequences
    p,             \* predicate of TakeWhile / DropWhile
    key,           \* key function of ChunkBy
    cmp,           \* comparator of MinFunc / MaxFunc / IsSortedFunc
    f,             \* RepeatN: the value the generator of Repeat returns
    s,             \* Chunks: group size
    grow,          \* ChunkBy: how append sizes a new array
    n0,            \* Take / Drop / RepeatN: the count the call was given
    n,             \* Take / Drop: the captured, counted-down parameter n
    n2,            \* Chain(Take(s, n), Drop(s, n)): the n Drop captured
    i,             \* Chunks: the captured counter i
    pc,            \* position of the traversal
    isSeq1Turn,    \* InterleaveShortest / InterleaveLongest
    v, w, ok,      \* the element(s) last obtained and the validity flag
    k, lastK,      \* ChunkBy
    vs,            \* ChunkBy / Cycle: the accumulated slice
    vsp,           \* ChunkBy: the array vs points into and its capacity
    heap,          \* ChunkBy: the arrays allocated by append
    groups,        \* history: the slices ChunkBy gave to FromSlice
    idx,           \* Cycle: index of the inner range over vs
    minV, maxV, prev, \* MinFunc / MaxFunc / IsSortedFunc
    ret,           \* the result of a call that returns a value
    cur,           \* cur[j]: "none", "open" or "released" cursor on input j
    pos,           \* pos[j]: number of elements input j has produced
    reqs,          \* history: the inputs asked for an element, in order
    fres,          \* history: the results of the calls of f, in order
    out,           \* history: what the consumer was given, in order
    stopped,       \* the consumer has answered "stop"
    pcalls,        \* history: evaluations of the predicate p
    runs           \* history: the earlier traversals of the same value

args == <<op, seq1, seq2, p, key, cmp, f, s, grow, n0>>
captured == <<n, n2, i>>
mem == <<vsp, heap, groups>>
ilv == <<isSeq1Turn>>
chunk == <<k, lastK>>
agg == <<minV, maxV, prev, ret>>
vars == <<args, captured, pc, ilv, v, w, ok, chunk, vs, idx, agg,
          cur, pos, reqs, fres, out, stopped, pcalls, runs, mem>>

\* ------------------------------------------------- sources and cursors
\* The delegation of the derived functions.
Impl(o) == CASE o = "Take" -> "TakeWhile"
             [] o = "RepeatN" -> "TakeWhile"
             [] o = "Drop" -> "DropWhile"
             [] o = "Chunks" -> "ChunkBy"
             [] o = "None" -> "Any"
             [] o = "ChainTakeDrop" -> "Chain"
             [] o = "CycleTake" -> "Cycle"
             [] OTHER -> o

\* Input j of the traversal.  Flatten's second input is the inner
\* sequence the outer one produced last.
Input(j) == IF j = 1 THEN seq1
            ELSE IF op = "Flatten" THEN seq1[pos[1]] ELSE seq2

\* RepeatN ranges over Repeat(v) = WithFunc(func() V { return v }).
WithFunc(j) == j = 1 /\ op = "RepeatN"

\* In Chain(Take(s, n), Drop(s, n)) input 1 is the value Take returned
\* and input 2 the value Drop returned, each over FromSlice(s) and each
\* with its own captured n.  In Cycle(Take(s, n)) the input is the value
\* Take returned.
TakeSrc(j) == op \in {"ChainTakeDrop", "CycleTake"} /\ j = 1
DropSrc(j) == op = "ChainTakeDrop" /\ j = 2

TakePredOffByOne(c) == IF c <= 1 THEN [res |-> FALSE, n |-> c]
                                 ELSE [res |-> TRUE, n |-> c - 1]

\* The closure Take passes as p: its result and the captured n after it.
TakePred(c) == IF c = 0 THEN [res |-> FALSE, n |-> c]
                        ELSE [res |-> TRUE, n |-> c - 1]

\* The closure Drop passes as p.
DropPred(c) == IF c = 0 THEN [res |-> FALSE, n |-> c]
                        ELSE [res |-> TRUE, n |-> c - 1]

\* The first loop of DropWhile run with Drop's closure on rem remaining
\* elements: the number of elements skipped, the captured n afterwards
\* and the number of calls of the closure.
RECURSIVE DropLoop(_, _)
DropLoop(c, rem) ==
    IF rem = 0 THEN [skip |-> 0, n |-> c, calls |-> 0]
    ELSE IF DropPred(c).res
            THEN LET r == DropLoop(DropPred(c).n, rem - 1)
                 IN  [skip |-> r.skip + 1, n |-> r.n, calls |-> r.calls + 1]
            ELSE [skip |-> 0, n |-> DropPred(c).n, calls |-> 1]

\* The first request to the Drop source starts its traversal function,
\* which runs the first loop; later requests resume it in the second.
FirstLoop(j) ==
    IF DropSrc(j) /\ \A x \in 1..Len(reqs) : reqs[x] # j
       THEN DropLoop(n2, Len(seq2) - pos[j])
       ELSE [skip |-> 0, n |-> n2, calls |-> 0]

\* FromSlice(vs) ranged over has a next element while pos[j] < len(vs);
\* WithFunc(f) always has one, the result of calling f.  The Take source
\* has one while FromSlice has one and the closure says true; the Drop
\* source has the first one its first loop does not skip.
HasNext(j) ==
    IF WithFunc(j) THEN TRUE
    ELSE IF TakeSrc(j) THEN pos[j] < Len(Input(j)) /\ TakePred(n).res
    ELSE pos[j] + FirstLoop(j).skip < Len(Input(j))
NextVal(j) == IF WithFunc(j) THEN f
              ELSE Input(j)[pos[j] + FirstLoop(j).skip + 1]

\* next() of the cursor on input j: (value, true) or (zero, false).
SeqNext(j) == IF HasNext(j) THEN [v |-> NextVal(j), ok |-> TRUE]
                            ELSE [v |-> Zero, ok |-> FALSE]

\* One request to input j, recorded; the input advances when it has one.
Request(j) ==
    /\ reqs' = Append(reqs, j)
    /\ fres' = IF WithFunc(j) THEN Append(fres, NextVal(j)) ELSE fres
    /\ pos' = IF WithFunc(j) THEN [pos EXCEPT ![j] = @ + 1]
              ELSE IF pos[j] + FirstLoop(j).skip < Len(Input(j))
                      THEN [pos EXCEPT ![j] = @ + FirstLoop(j).skip + 1]
                      ELSE [pos EXCEPT ![j] = Len(Input(j))]

\* What one request to input j does to the captured counters of the
\* Take and Drop sources, and the calls of their closures it makes.
SrcClosures(j) ==
    /\ n' = IF TakeSrc(j) /\ pos[j] < Len(Input(j))
                THEN TakePred(n).n ELSE n
    /\ n2' = FirstLoop(j).n
    /\ pcalls' = pcalls + (IF TakeSrc(j) /\ pos[j] < Len(Input(j))
                              THEN 1 ELSE FirstLoop(j).calls)

\* iter.Pull on both inputs, resp. on the single input.
Pull2 == [j \in 1..2 |-> "open"]
Pull1 == [j \in 1..2 |-> IF j = 1 THEN "open" ELSE "none"]

\* stop() of a cursor; a no-op on a cursor that is not open.
Stop(c) == IF c = "open" THEN "released" ELSE c

RunDefersLeak(c) == [j \in 1..2 |-> IF j = 2 THEN Stop(c[j]) ELSE c[j]]

\* The deferred stop calls, run when the traversal function returns.
RunDefers(c) == [j \in 1..2 |-> Stop(c[j])]

Return ==
    /\ pc' = "done"
    /\ cur' = RunDefers(cur)

\* yield(x) answered by cont.
Yield(x, cont) ==
    /\ out' = Append(out, x)
    /\ stopped' = ~cont

\* ------------------------------------------------------------- Init
NoCursor == [j \in 1..2 |-> "none"]

\* A nil slice: no array, capacity 0.
NilSlice == [arr |-> 0, cap |-> 0]

Idle ==
    /\ pc = "start"
    /\ isSeq1Turn = FALSE
    /\ v = Zero /\ w = Zero /\ ok = FALSE
    /\ k = 0 /\ lastK = 0
    /\ vs = <<>>
    /\ vsp = NilSlice /\ heap = <<>> /\ groups = <<>>
    /\ idx = 0
    /\ minV = Zero /\ maxV = Zero /\ prev = Zero
    /\ ret = [v |-> Zero, b |-> FALSE]
    /\ cur = NoCursor
    /\ pos = [j \in 1..2 |-> 0]
    /\ reqs = <<>>
    /\ fres = <<>>
    /\ out = <<>>
    /\ stopped = FALSE
    /\ pcalls = 0

TwoInputOps == {"InterleaveShortest", "InterleaveLongest", "ZipShortest"}

OneInputOps == {"Cycle"}
PredOps == {"TakeWhile", "DropWhile", "All", "Any", "None"}
CmpOps == {"MinFunc", "MaxFunc", "IsSortedFunc"}
CountOps == {"Take", "Drop"}
BaseOps == TwoInputOps \cup {"Chain"} \cup OneInputOps \cup PredOps
             \cup CmpOps \cup {"Flatten", "ChunkBy"}
DerivedOps == CountOps \cup {"RepeatN", "Chunks"}

Preds == [Vals -> BOOLEAN]
KeyFns == [Vals -> Keys]
Cmps == {"nat", "rev", "half"}
\* Flatten never looks at an element: two values tell them apart.
FlatVals == 0..1
Nested == SeqsUpTo(SeqsUpTo(FlatVals, MaxInner), MaxOuter)

NoPred == [x \in Vals |-> FALSE]
NoKey == [x \in Vals |-> 0]

\* The arguments of a call of o.
Args(o) ==
    /\ op = o
    /\ seq1 \in (IF o = "Flatten" THEN Nested
                 ELSE IF o \in {"RepeatN", "WithFunc"} THEN {<<>>}
                 ELSE Slices)
    /\ seq2 \in (IF o \in TwoInputOps \cup {"Chain"} THEN Slices
                 ELSE IF o = "ChainTakeDrop" THEN {seq1} ELSE {<<>>})
    /\ p \in (IF o \in PredOps THEN Preds ELSE {NoPred})
    /\ key \in (IF o = "ChunkBy" THEN KeyFns ELSE {NoKey})
    /\ cmp \in (IF o \in CmpOps THEN Cmps ELSE {"nat"})
    /\ f \in (IF o = "RepeatN" THEN Vals ELSE {Zero})
    /\ s \in (IF o = "Chunks" THEN 1..MaxSize ELSE {1})
    /\ grow \in (IF o = "ChunkBy" THEN {"exact", "spare"} ELSE {"spare"})
    /\ n \in (IF o \in CountOps \cup {"RepeatN", "ChainTakeDrop", "CycleTake"}
                 THEN 0..MaxN ELSE {0})
    /\ n0 = n
    /\ n2 = (IF o = "ChainTakeDrop" THEN n ELSE 0)
    /\ i = 0

Init ==
    /\ \E o \in BaseOps : Args(o)
    /\ runs = <<>>
    /\ Idle

\* ------------------------------------------------ InterleaveShortest
TurnSwapped(t) == IF t THEN 2 ELSE 1

\* The cursor asked on this turn.
Turn(t) == IF t THEN 1 ELSE 2

IS_Pull ==
    /\ op = "InterleaveShortest" /\ pc = "start"
    /\ cur' = Pull2
    /\ isSeq1Turn' = TRUE
    /\ pc' = "is_next"
    /\ UNCHANGED <<args, captured, v, w, ok, chunk, vs, idx, agg,
                   pos, reqs, fres, out, stopped, pcalls, runs, mem>>

IS_Next ==
    /\ op = "InterleaveShortest" /\ pc = "is_next"
    /\ Request(Turn(isSeq1Turn))
    /\ v' = SeqNext(Turn(isSeq1Turn)).v
    /\ ok' = SeqNext(Turn(isSeq1Turn)).ok
    /\ IF ~ok' THEN Return
               ELSE pc' = "is_yield" /\ cur' = cur
    /\ UNCHANGED <<args, captured, ilv, w, chunk, vs, idx, agg,
                   out, stopped, pcalls, runs, mem>>

IS_Yield ==
    /\ op = "InterleaveShortest" /\ pc = "is_yield"
    /\ \E cont \in BOOLEAN :
          /\ Yield(v, cont)
          /\ IF ~cont
                THEN Return /\ isSeq1Turn' = isSeq1Turn
                ELSE /\ isSeq1Turn' = ~isSeq1Turn
                     /\ pc' = "is_next" /\ cur' = cur
    /\ UNCHANGED <<args, captured, v, w, ok, chunk, vs, idx, agg,
                   pos, reqs, fres, pcalls, runs, mem>>

NextInterleaveShortest == IS_Pull \/ IS_Next \/ IS_Yield

\* ------------------------------------------------- InterleaveLongest
ILTurnStuck(t) == 1

\* The cursor asked on this turn of the alternating loop.
ILTurn(t) == IF t THEN 1 ELSE 2

FlipTurnMissing(t) == t

\* After the break the turn is flipped once more ...
FlipTurn(t) == ~t

\* ... and next is the next function of the side whose turn it now is.
DrainCursor(t) == IF ~t THEN 2 ELSE 1

IL_Pull ==
    /\ op = "InterleaveLongest" /\ pc = "start"
    /\ cur' = Pull2
    /\ isSeq1Turn' = TRUE
    /\ pc' = "il_next"
    /\ UNCHANGED <<args, captured, v, w, ok, chunk, vs, idx, agg,
                   pos, reqs, fres, out, stopped, pcalls, runs, mem>>

IL_Next ==
    /\ op = "InterleaveLongest" /\ pc = "il_next"
    /\ Request(ILTurn(isSeq1Turn))
    /\ v' = SeqNext(ILTurn(isSeq1Turn)).v
    /\ ok' = SeqNext(ILTurn(isSeq1Turn)).ok
    /\ IF ~ok' THEN /\ isSeq1Turn' = FlipTurn(isSeq1Turn)
                    /\ pc' = "il_drain"
               ELSE /\ isSeq1Turn' = isSeq1Turn
                    /\ pc' = "il_yield"
    /\ UNCHANGED <<args, captured, w, chunk, vs, idx, agg,
                   cur, out, stopped, pcalls, runs, mem>>

IL_Yield ==
    /\ op = "InterleaveLongest" /\ pc = "il_yield"
    /\ \E cont \in BOOLEAN :
          /\ Yield(v, cont)
          /\ IF ~cont
                THEN Return /\ isSeq1Turn' = isSeq1Turn
                ELSE /\ isSeq1Turn' = ~isSeq1Turn
                     /\ pc' = "il_next" /\ cur' = cur
    /\ UNCHANGED <<args, captured, v, w, ok, chunk, vs, idx, agg,
                   pos, reqs, fres, pcalls, runs, mem>>

\* The final loop: next() of the surviving side, until it is exhausted.
IL_DrainNext ==
    /\ op = "InterleaveLongest" /\ pc = "il_drain"
    /\ Request(DrainCursor(isSeq1Turn))
    /\ v' = SeqNext(DrainCursor(isSeq1Turn)).v
    /\ ok' = SeqNext(DrainCursor(isSeq1Turn)).ok
    /\ IF ~ok' THEN Return
               ELSE pc' = "il_drainyield" /\ cur' = cur
    /\ UNCHANGED <<args, captured, ilv, w, chunk, vs, idx, agg,
                   out, stopped, pcalls, runs, mem>>

IL_DrainYield ==
    /\ op = "InterleaveLongest" /\ pc = "il_drainyield"
    /\ \E cont \in BOOLEAN :
          /\ Yield(v, cont)
          /\ IF ~cont THEN Return
                      ELSE pc' = "il_drain" /\ cur' = cur
    /\ UNCHANGED <<args, captured, ilv, v, w, ok, chunk, vs, idx, agg,
                   pos, reqs, fres, pcalls, runs, mem>>

NextInterleaveLongest ==
    IL_Pull \/ IL_Next \/ IL_Yield \/ IL_DrainNext \/ IL_DrainYield

\* -------------------------------------------------------- ZipShortest
PairSwapped(x, y) == <<y, x>>

\* The two values given to one call of yield.
Pair(x, y) == <<x, y>>

ZS_Pull ==
    /\ op = "ZipShortest" /\ pc = "start"
    /\ cur' = Pull2
    /\ pc' = "zs_next1"
    /\ UNCHANGED <<args, captured, ilv, v, w, ok, chunk, vs, idx, agg,
                   pos, reqs, fres, out, stopped, pcalls, runs, mem>>

ZS_Next1NoReturn ==
    /\ op = "ZipShortest" /\ pc = "zs_next1"
    /\ Request(1)
    /\ v' = SeqNext(1).v
    /\ ok' = SeqNext(1).ok
    /\ pc' = "zs_next2" /\ cur' = cur
    /\ UNCHANGED <<args, captured, ilv, w, chunk, vs, idx, agg,
                   out, stopped, pcalls, runs, mem>>

\* v, ok := seq1next(); if !ok { return }
ZS_Next1 ==
    /\ op = "ZipShortest" /\ pc = "zs_next1"
    /\ Request(1)
    /\ v' = SeqNext(1).v
    /\ ok' = SeqNext(1).ok
    /\ IF ~ok' THEN Return
               ELSE pc' = "zs_next2" /\ cur' = cur
    /\ UNCHANGED <<args, captured, ilv, w, chunk, vs, idx, agg,
                   out, stopped, pcalls, runs, mem>>

ZS_Next2 ==
    /\ op = "ZipShortest" /\ pc = "zs_next2"
    /\ Request(2)
    /\ w' = SeqNext(2).v
    /\ ok' = SeqNext(2).ok
    /\ IF ~ok' THEN Return
               ELSE pc' = "zs_yield" /\ cur' = cur
    /\ UNCHANGED <<args, captured, ilv, v, chunk, vs, idx, agg,
                   out, stopped, pcalls, runs, mem>>

ZS_Yield ==
    /\ op = "ZipShortest" /\ pc = "zs_yield"
    /\ \E cont \in BOOLEAN :
          /\ Yield(Pair(v, w), cont)
          /\ IF ~cont THEN Return
                      ELSE pc' = "zs_next1" /\ cur' = cur
    /\ UNCHANGED <<args, captured, ilv, v, w, ok, chunk, vs, idx, agg,
                   pos, reqs, fres, pcalls, runs, mem>>

NextZipShortest == ZS_Pull \/ ZS_Next1 \/ ZS_Next2 \/ ZS_Yield

\* -------------------------------------------------------------- Chain
\* for s := range seq1: seq1 is asked for its next element.
\* for s := range seq1
CH_Range1 ==
    /\ Impl(op) = "Chain" /\ pc \in {"start", "ch_range1"}
    /\ Request(1)
    /\ SrcClosures(1)
    /\ IF HasNext(1) THEN v' = NextVal(1) /\ pc' = "ch_yield1"
                     ELSE v' = v /\ pc' = "ch_range2"
    /\ UNCHANGED <<args, i, ilv, w, ok, chunk, vs, idx, agg,
                   cur, out, stopped, runs, mem>>

CH_Yield1NoReturn ==
    /\ Impl(op) = "Chain" /\ pc = "ch_yield1"
    /\ \E cont \in BOOLEAN :
          /\ Yield(v, cont)
          /\ IF ~cont THEN pc' = "ch_range2" /\ cur' = cur
                      ELSE pc' = "ch_range1" /\ cur' = cur
    /\ UNCHANGED <<args, captured, ilv, v, w, ok, chunk, vs, idx, agg,
                   pos, reqs, fres, pcalls, runs, mem>>

CH_Yield1 ==
    /\ Impl(op) = "Chain" /\ pc = "ch_yield1"
    /\ \E cont \in BOOLEAN :
          /\ Yield(v, cont)
          /\ IF ~cont THEN Return
                      ELSE pc' = "ch_range1" /\ cur' = cur
    /\ UNCHANGED <<args, captured, ilv, v, w, ok, chunk, vs, idx, agg,
                   pos, reqs, fres, pcalls, runs, mem>>

\* for s := range seq2; the function returns when seq2 is exhausted.
CH_Range2 ==
    /\ Impl(op) = "Chain" /\ pc = "ch_range2"
    /\ Request(2)
    /\ SrcClosures(2)
    /\ IF HasNext(2) THEN v' = NextVal(2) /\ pc' = "ch_yield2" /\ cur' = cur
                     ELSE v' = v /\ Return
    /\ UNCHANGED <<args, i, ilv, w, ok, chunk, vs, idx, agg,
                   out, stopped, runs, mem>>

CH_Yield2 ==
    /\ Impl(op) = "Chain" /\ pc = "ch_yield2"
    /\ \E cont \in BOOLEAN :
          /\ Yield(v, cont)
          /\ IF ~cont THEN Return
                      ELSE pc' = "ch_range2" /\ cur' = cur
    /\ UNCHANGED <<args, captured, ilv, v, w, ok, chunk, vs, idx, agg,
                   pos, reqs, fres, pcalls, runs, mem>>

NextChain == CH_Range1 \/ CH_Yield1 \/ CH_Range2 \/ CH_Yield2

\* -------------------------------------------------------------- Cycle
\* for v := range seq: the first cycle.
\* for v := range seq
CY_Range ==
    /\ Impl(op) = "Cycle" /\ pc \in {"start", "cy_range"}
    /\ Request(1)
    /\ SrcClosures(1)
    /\ IF HasNext(1) THEN v' = NextVal(1) /\ pc' = "cy_yield"
                     ELSE v' = v /\ pc' = "cy_loop"
    /\ UNCHANGED <<args, i, ilv, w, ok, chunk, vs, idx, agg,
                   cur, out, stopped, runs, mem>>

CY_YieldBufferFirst ==
    /\ Impl(op) = "Cycle" /\ pc = "cy_yield"
    /\ \E cont \in BOOLEAN :
          /\ Yield(v, cont)
          /\ vs' = Append(vs, v)
          /\ IF ~cont THEN Return
                      ELSE pc' = "cy_range" /\ cur' = cur
    /\ UNCHANGED <<args, captured, ilv, v, w, ok, chunk, idx, agg,
                   pos, reqs, fres, pcalls, runs, mem>>

\* if !yield(v) { return }; vs = append(vs, v)
CY_Yield ==
    /\ Impl(op) = "Cycle" /\ pc = "cy_yield"
    /\ \E cont \in BOOLEAN :
          /\ Yield(v, cont)
          /\ IF ~cont THEN Return /\ vs' = vs
                      ELSE /\ vs' = Append(vs, v)
                           /\ pc' = "cy_range" /\ cur' = cur
    /\ UNCHANGED <<args, captured, ilv, v, w, ok, chunk, idx, agg,
                   pos, reqs, fres, pcalls, runs, mem>>

LoopCondAlways(buf) == TRUE

\* for len(vs) > 0
LoopCond(buf) == Len(buf) > 0

\* The head of the outer loop, entering the inner range over vs.  An
\* inner range over an empty vs ends at once, back at the loop head.
CY_Loop ==
    /\ Impl(op) = "Cycle" /\ pc = "cy_loop"
    /\ IF ~LoopCond(vs)
          THEN Return /\ idx' = idx /\ v' = v
          ELSE IF Len(vs) = 0
                  THEN pc' = "cy_loop" /\ idx' = idx /\ v' = v /\ cur' = cur
                  ELSE /\ idx' = 1
                       /\ v' = vs[1]
                       /\ pc' = "cy_reyield" /\ cur' = cur
    /\ UNCHANGED <<args, captured, ilv, w, ok, chunk, vs, agg,
                   pos, reqs, fres, out, stopped, pcalls, runs, mem>>

\* The body of the inner range over vs, and the step to its next element.
CY_ReYield ==
    /\ Impl(op) = "Cycle" /\ pc = "cy_reyield"
    /\ Len(out) < MaxOut
    /\ \E cont \in BOOLEAN :
          /\ Yield(v, cont)
          /\ IF ~cont
                THEN Return /\ idx' = idx /\ v' = v
                ELSE /\ cur' = cur
                     /\ IF idx < Len(vs)
                           THEN /\ idx' = idx + 1
                                /\ v' = vs[idx + 1]
                                /\ pc' = "cy_reyield"
                           ELSE idx' = idx /\ v' = v /\ pc' = "cy_loop"
    /\ UNCHANGED <<args, captured, ilv, w, ok, chunk, vs, agg,
                   pos, reqs, fres, pcalls, runs, mem>>

NextCycle == CY_Range \/ CY_Yield \/ CY_Loop \/ CY_ReYield

\* ------------------------------------------------------------ Flatten
\* for s := range seq: the outer sequence is asked for the next inner one.
FL_Outer ==
    /\ op = "Flatten" /\ pc \in {"start", "fl_outer"}
    /\ reqs' = Append(reqs, 1)
    /\ fres' = fres
    /\ IF HasNext(1)
          THEN /\ pos' = [pos EXCEPT ![1] = @ + 1, ![2] = 0]
               /\ pc' = "fl_inner" /\ cur' = cur
          ELSE pos' = pos /\ Return
    /\ UNCHANGED <<args, captured, ilv, v, w, ok, chunk, vs, idx, agg,
                   out, stopped, pcalls, runs, mem>>

\* for v := range s
FL_Inner ==
    /\ op = "Flatten" /\ pc = "fl_inner"
    /\ Request(2)
    /\ IF HasNext(2) THEN v' = NextVal(2) /\ pc' = "fl_yield"
                     ELSE v' = v /\ pc' = "fl_outer"
    /\ UNCHANGED <<args, captured, ilv, w, ok, chunk, vs, idx, agg,
                   cur, out, stopped, pcalls, runs, mem>>

FL_Yield ==
    /\ op = "Flatten" /\ pc = "fl_yield"
    /\ \E cont \in BOOLEAN :
          /\ Yield(v, cont)
          /\ IF ~cont THEN Return
                      ELSE pc' = "fl_inner" /\ cur' = cur
    /\ UNCHANGED <<args, captured, ilv, v, w, ok, chunk, vs, idx, agg,
                   pos, reqs, fres, pcalls, runs, mem>>

NextFlatten == FL_Outer \/ FL_Inner \/ FL_Yield

\* ------------------------------------------------- TakeWhile and Take
\* p(x): its result and the value of the captured n after the call.
CallP(x) == CASE op \in {"Take", "RepeatN"} -> TakePred(n)
              [] op = "Drop" -> DropPred(n)
              [] OTHER -> [res |-> p[x], n |-> n]

TW_RangeCheckFirst ==
    /\ Impl(op) = "TakeWhile" /\ pc \in {"start", "tw_range"}
    /\ IF op \in {"Take", "RepeatN"} /\ n = 0
          THEN v' = v /\ Return /\ UNCHANGED <<pos, reqs, fres>>
          ELSE /\ Request(1)
               /\ IF HasNext(1)
                     THEN v' = NextVal(1) /\ pc' = "tw_pred" /\ cur' = cur
                     ELSE v' = v /\ Return
    /\ UNCHANGED <<args, captured, ilv, w, ok, chunk, vs, idx, agg,
                   out, stopped, pcalls, runs, mem>>

\* for v := range seq
TW_Range ==
    /\ Impl(op) = "TakeWhile" /\ pc \in {"start", "tw_range"}
    /\ Request(1)
    /\ IF HasNext(1) THEN v' = NextVal(1) /\ pc' = "tw_pred" /\ cur' = cur
                     ELSE v' = v /\ Return
    /\ UNCHANGED <<args, captured, ilv, w, ok, chunk, vs, idx, agg,
                   out, stopped, pcalls, runs, mem>>

\* !p(v) || ...
TW_Pred ==
    /\ Impl(op) = "TakeWhile" /\ pc = "tw_pred"
    /\ pcalls' = pcalls + 1
    /\ n' = CallP(v).n
    /\ IF ~CallP(v).res THEN Return
                        ELSE pc' = "tw_yield" /\ cur' = cur
    /\ UNCHANGED <<args, n2, i, ilv, v, w, ok, chunk, vs, idx, agg,
                   pos, reqs, fres, out, stopped, runs, mem>>

\* ... || !yield(v)
TW_Yield ==
    /\ Impl(op) = "TakeWhile" /\ pc = "tw_yield"
    /\ \E cont \in BOOLEAN :
          /\ Yield(v, cont)
          /\ IF ~cont THEN Return
                      ELSE pc' = "tw_range" /\ cur' = cur
    /\ UNCHANGED <<args, captured, ilv, v, w, ok, chunk, vs, idx, agg,
                   pos, reqs, fres, pcalls, runs, mem>>

NextTakeWhile == TW_Range \/ TW_Pred \/ TW_Yield

\* ------------------------------------------------- DropWhile and Drop
DW_Pull ==
    /\ Impl(op) = "DropWhile" /\ pc = "start"
    /\ cur' = Pull1
    /\ pc' = "dw_next1"
    /\ UNCHANGED <<args, captured, ilv, v, w, ok, chunk, vs, idx, agg,
                   pos, reqs, fres, out, stopped, pcalls, runs, mem>>

\* The first loop: next() until an element does not pass p.  When the
\* cursor is exhausted here, the second loop still calls next() once.
DW_Next1 ==
    /\ Impl(op) = "DropWhile" /\ pc = "dw_next1"
    /\ Request(1)
    /\ v' = SeqNext(1).v
    /\ ok' = SeqNext(1).ok
    /\ pc' = IF ok' THEN "dw_pred" ELSE "dw_next2"
    /\ UNCHANGED <<args, captured, ilv, w, chunk, vs, idx, agg,
                   cur, out, stopped, pcalls, runs, mem>>

DW_PredSkipFirst ==
    /\ Impl(op) = "DropWhile" /\ pc = "dw_pred"
    /\ pcalls' = pcalls + 1
    /\ n' = CallP(v).n
    /\ pc' = IF CallP(v).res THEN "dw_next1" ELSE "dw_next2"
    /\ UNCHANGED <<args, n2, i, ilv, v, w, ok, chunk, vs, idx, agg,
                   cur, pos, reqs, fres, out, stopped, runs, mem>>

\* if p(v) { continue }
DW_Pred ==
    /\ Impl(op) = "DropWhile" /\ pc = "dw_pred"
    /\ pcalls' = pcalls + 1
    /\ n' = CallP(v).n
    /\ pc' = IF CallP(v).res THEN "dw_next1" ELSE "dw_yield1"
    /\ UNCHANGED <<args, n2, i, ilv, v, w, ok, chunk, vs, idx, agg,
                   cur, pos, reqs, fres, out, stopped, runs, mem>>

AfterFirstYieldContinue == "dw_next1"

\* break: the first loop is left for the second one.
AfterFirstYield == "dw_next2"

\* if !yield(v) { return }; break
DW_Yield1 ==
    /\ Impl(op) = "DropWhile" /\ pc = "dw_yield1"
    /\ \E cont \in BOOLEAN :
          /\ Yield(v, cont)
          /\ IF ~cont THEN Return
                      ELSE pc' = AfterFirstYield /\ cur' = cur
    /\ UNCHANGED <<args, captured, ilv, v, w, ok, chunk, vs, idx, agg,
                   pos, reqs, fres, pcalls, runs, mem>>

\* The second loop: every remaining element is yielded.
DW_Next2 ==
    /\ Impl(op) = "DropWhile" /\ pc = "dw_next2"
    /\ Request(1)
    /\ v' = SeqNext(1).v
    /\ ok' = SeqNext(1).ok
    /\ IF ~ok' THEN Return
               ELSE pc' = "dw_yield2" /\ cur' = cur
    /\ UNCHANGED <<args, captured, ilv, w, chunk, vs, idx, agg,
                   out, stopped, pcalls, runs, mem>>

DW_Yield2 ==
    /\ Impl(op) = "DropWhile" /\ pc = "dw_yield2"
    /\ \E cont \in BOOLEAN :
          /\ Yield(v, cont)
          /\ IF ~cont THEN Return
                      ELSE pc' = "dw_next2" /\ cur' = cur
    /\ UNCHANGED <<args, captured, ilv, v, w, ok, chunk, vs, idx, agg,
                   pos, reqs, fres, pcalls, runs, mem>>

NextDropWhile ==
    DW_Pull \/ DW_Next1 \/ DW_Pred \/ DW_Yield1 \/ DW_Next2 \/ DW_Yield2

\* ------------------------------------------------- ChunkBy and Chunks
\* The closure Chunks passes as key: k := i / s; i++; return k.
ChunksKeyModulo(c, sz) == [res |-> c % sz, i |-> c + 1]

\* Chunks' key: k := i / s; i++; return k.
ChunksKey(c, sz) == [res |-> c \div sz, i |-> c + 1]

\* key(x): its result and the value of the captured i after the call.
CallKey(x) == IF op = "Chunks" THEN ChunksKey(i, s)
                               ELSE [res |-> key[x], i |-> i]

\* The capacity append gives the new array when a slice of length l is
\* full.  The language leaves it to the implementation: exactly what is
\* needed, or twice that, which leaves room to spare.
NewCap(l, c) == IF grow = "spare" THEN 2 * (l + 1) ELSE l + 1

\* append(vs, x) on the slice h of length l: x is written in place when
\* there is room, else into a new array that gets a copy of the elements.
AppendSlice(hp, h, l, x) ==
    IF l < h.cap
       THEN [hdr |-> h, heap |-> [hp EXCEPT ![h.arr][l + 1] = x]]
       ELSE LET c == NewCap(l, h.cap)
                a == [y \in 1..c |-> IF y \in 1..Min2(l, h.cap)
                                        THEN hp[h.arr][y]
                                     ELSE IF y = l + 1 THEN x ELSE Zero]
            IN  [hdr |-> [arr |-> Len(hp) + 1, cap |-> c],
                 heap |-> Append(hp, a)]

ResetBufReuse(h) == h

\* vs = nil
ResetBuf(h) == NilSlice

\* FromSlice(vs): the group holds the array of vs and its length.
Group == [arr |-> vsp.arr, len |-> Len(vs)]

AfterFlushKeep(buf, x) == Append(buf, x)

\* vs = nil, then vs = append(vs, v): a fresh slice holding only v.
AfterFlush(buf, x) == <<x>>

CB_Pull ==
    /\ Impl(op) = "ChunkBy" /\ pc = "start"
    /\ vs' = <<>>
    /\ vsp' = NilSlice
    /\ cur' = Pull1
    /\ pc' = "cb_first"
    /\ UNCHANGED <<args, captured, ilv, v, w, ok, chunk, idx, agg,
                   pos, reqs, fres, out, stopped, pcalls, runs,
                   heap, groups>>

\* The first element opens the first group.
CB_First ==
    /\ Impl(op) = "ChunkBy" /\ pc = "cb_first"
    /\ Request(1)
    /\ v' = SeqNext(1).v
    /\ ok' = SeqNext(1).ok
    /\ IF ~ok'
          THEN Return /\ UNCHANGED <<vs, vsp, heap, k, lastK, i>>
          ELSE /\ vs' = Append(vs, v')
               /\ vsp' = AppendSlice(heap, vsp, Len(vs), v').hdr
               /\ heap' = AppendSlice(heap, vsp, Len(vs), v').heap
               /\ k' = CallKey(v').res
               /\ i' = CallKey(v').i
               /\ lastK' = k'
               /\ pc' = "cb_next" /\ cur' = cur
    /\ UNCHANGED <<args, n, n2, ilv, w, idx, agg, out, stopped, pcalls,
                   runs, groups>>

\* One turn of the loop up to the yield of a finished group.
CB_Next ==
    /\ Impl(op) = "ChunkBy" /\ pc = "cb_next"
    /\ Request(1)
    /\ v' = SeqNext(1).v
    /\ ok' = SeqNext(1).ok
    /\ IF ~ok'
          THEN pc' = "cb_last" /\ UNCHANGED <<vs, vsp, heap, k, i>>
          ELSE /\ k' = CallKey(v').res
               /\ i' = CallKey(v').i
               /\ IF k' # lastK
                     THEN pc' = "cb_flush" /\ UNCHANGED <<vs, vsp, heap>>
                     ELSE /\ pc' = "cb_next"
                          /\ vs' = Append(vs, v')
                          /\ vsp' = AppendSlice(heap, vsp, Len(vs), v').hdr
                          /\ heap' = AppendSlice(heap, vsp, Len(vs), v').heap
    /\ UNCHANGED <<args, n, n2, ilv, w, lastK, idx, agg,
                   cur, out, stopped, pcalls, runs, groups>>

\* yield(FromSlice(vs)) of the last group; its answer is not looked at.
CB_Last ==
    /\ Impl(op) = "ChunkBy" /\ pc = "cb_last"
    /\ \E cont \in BOOLEAN : Yield(vs, cont)
    /\ groups' = Append(groups, Group)
    /\ Return
    /\ UNCHANGED <<args, captured, ilv, v, w, ok, chunk, vs, idx, agg,
                   pos, reqs, fres, pcalls, runs, vsp, heap>>

\* yield(FromSlice(vs)) when the key changed; then the new group starts.
CB_Flush ==
    /\ Impl(op) = "ChunkBy" /\ pc = "cb_flush"
    /\ \E cont \in BOOLEAN :
          /\ Yield(vs, cont)
          /\ IF ~cont
                THEN Return /\ UNCHANGED <<lastK, vs, vsp, heap>>
                ELSE /\ lastK' = k
                     /\ vs' = AfterFlush(vs, v)
                     /\ vsp' = AppendSlice(heap, ResetBuf(vsp), 0, v).hdr
                     /\ heap' = AppendSlice(heap, ResetBuf(vsp), 0, v).heap
                     /\ pc' = "cb_next" /\ cur' = cur
    /\ groups' = Append(groups, Group)
    /\ UNCHANGED <<args, captured, ilv, v, w, ok, k, idx, agg,
                   pos, reqs, fres, pcalls, runs>>

NextChunkBy == CB_Pull \/ CB_First \/ CB_Next \/ CB_Last \/ CB_Flush

\* ---------------------------------------------------------- WithFunc
\* f() inside for { ... }: f is any function of the caller, its result
\* is any value.  The traversal is cut off after MaxCalls calls.
GEN_Call ==
    /\ op = "WithFunc" /\ pc \in {"start", "gen_call"}
    /\ Len(fres) < MaxCalls
    /\ \E x \in Vals :
          /\ v' = x
          /\ fres' = Append(fres, x)
    /\ pc' = "gen_yield"
    /\ UNCHANGED <<args, captured, ilv, w, ok, chunk, vs, idx, agg,
                   cur, pos, reqs, out, stopped, pcalls, runs, mem>>

GEN_YieldNoReturn ==
    /\ op = "WithFunc" /\ pc = "gen_yield"
    /\ \E cont \in BOOLEAN : Yield(v, cont)
    /\ pc' = "gen_call"
    /\ UNCHANGED <<args, captured, ilv, v, w, ok, chunk, vs, idx, agg,
                   cur, pos, reqs, fres, pcalls, runs, mem>>

\* if !yield(f()) { return }
GEN_Yield ==
    /\ op = "WithFunc" /\ pc = "gen_yield"
    /\ \E cont \in BOOLEAN :
          /\ Yield(v, cont)
          /\ IF ~cont THEN Return
                      ELSE pc' = "gen_call" /\ cur' = cur
    /\ UNCHANGED <<args, captured, ilv, v, w, ok, chunk, vs, idx, agg,
                   pos, reqs, fres, pcalls, runs, mem>>

NextWithFunc == GEN_Call \/ GEN_Yield

\* --------------------------------------------- All, Any and None
\* for v := range seq (All)
AL_Range ==
    /\ op = "All" /\ pc \in {"start", "al_range"}
    /\ Request(1)
    /\ IF HasNext(1)
          THEN v' = NextVal(1) /\ ret' = ret /\ pc' = "al_pred" /\ cur' = cur
          ELSE v' = v /\ ret' = [v |-> Zero, b |-> TRUE] /\ Return
    /\ UNCHANGED <<args, captured, ilv, w, ok, chunk, vs, idx,
                   minV, maxV, prev, out, stopped, pcalls, runs, mem>>

\* if !p(v) { return false }
AL_Pred ==
    /\ op = "All" /\ pc = "al_pred"
    /\ pcalls' = pcalls + 1
    /\ IF ~CallP(v).res
          THEN ret' = [v |-> Zero, b |-> FALSE] /\ Return
          ELSE ret' = ret /\ pc' = "al_range" /\ cur' = cur
    /\ UNCHANGED <<args, captured, ilv, v, w, ok, chunk, vs, idx,
                   minV, maxV, prev, pos, reqs, fres, out, stopped,
                   runs, mem>>

NoneResultSame(r) == r

\* What the caller gets when Any returns r: None returns !Any(seq, p).
NoneResult(r) == IF op = "None" THEN ~r ELSE r

\* for v := range seq (Any, and None through Any)
AN_Range ==
    /\ Impl(op) = "Any" /\ pc \in {"start", "an_range"}
    /\ Request(1)
    /\ IF HasNext(1)
          THEN v' = NextVal(1) /\ ret' = ret /\ pc' = "an_pred" /\ cur' = cur
          ELSE /\ v' = v
               /\ ret' = [v |-> Zero, b |-> NoneResult(FALSE)]
               /\ Return
    /\ UNCHANGED <<args, captured, ilv, w, ok, chunk, vs, idx,
                   minV, maxV, prev, out, stopped, pcalls, runs, mem>>

\* if p(v) { return true }
AN_Pred ==
    /\ Impl(op) = "Any" /\ pc = "an_pred"
    /\ pcalls' = pcalls + 1
    /\ IF CallP(v).res
          THEN ret' = [v |-> Zero, b |-> NoneResult(TRUE)] /\ Return
          ELSE ret' = ret /\ pc' = "an_range" /\ cur' = cur
    /\ UNCHANGED <<args, captured, ilv, v, w, ok, chunk, vs, idx,
                   minV, maxV, prev, pos, reqs, fres, out, stopped,
                   runs, mem>>

NextAllAny == AL_Range \/ AL_Pred \/ AN_Range \/ AN_Pred

\* --------------------------------- MinFunc, MaxFunc and IsSortedFunc
\* The three-way comparators given as cmp: cmp.Compare, its reverse, and
\* a total preorder that ties distinct values (it compares the halves).
Compare(x, y) == IF x < y THEN -1 ELSE IF x > y THEN 1 ELSE 0
Cmp(c, x, y) == IF c = "rev" THEN Compare(y, x)
                ELSE IF c = "half" THEN Compare(x \div 2, y \div 2)
                ELSE Compare(x, y)

MinStepLast(c, x, m) == IF Cmp(c, x, m) <= 0 THEN x ELSE m

\* if cmp(v, minV) < 0 { minV = v }
MinStep(c, x, m) == IF Cmp(c, x, m) < 0 THEN x ELSE m

\* if cmp(v, maxV) > 0 { maxV = v }
MaxStep(c, x, m) == IF Cmp(c, x, m) > 0 THEN x ELSE m

OutOfOrderOrEqual(c, a, b) == Cmp(c, a, b) >= 0

\* if cmp(prev, v) > 0 { return false }
OutOfOrder(c, a, b) == Cmp(c, a, b) > 0

MN_Pull ==
    /\ op = "MinFunc" /\ pc = "start"
    /\ cur' = Pull1
    /\ pc' = "mn_first"
    /\ UNCHANGED <<args, captured, ilv, v, w, ok, chunk, vs, idx, agg,
                   pos, reqs, fres, out, stopped, pcalls, runs, mem>>

MN_First ==
    /\ op = "MinFunc" /\ pc = "mn_first"
    /\ Request(1)
    /\ minV' = SeqNext(1).v
    /\ ok' = SeqNext(1).ok
    /\ IF ~ok' THEN ret' = [v |-> minV', b |-> FALSE] /\ Return
               ELSE ret' = ret /\ pc' = "mn_next" /\ cur' = cur
    /\ UNCHANGED <<args, captured, ilv, v, w, chunk, vs, idx, maxV, prev,
                   out, stopped, pcalls, runs, mem>>

MN_Next ==
    /\ op = "MinFunc" /\ pc = "mn_next"
    /\ Request(1)
    /\ v' = SeqNext(1).v
    /\ ok' = SeqNext(1).ok
    /\ IF ~ok'
          THEN minV' = minV /\ ret' = [v |-> minV, b |-> TRUE] /\ Return
          ELSE /\ minV' = MinStep(cmp, v', minV)
               /\ ret' = ret /\ pc' = "mn_next" /\ cur' = cur
    /\ UNCHANGED <<args, captured, ilv, w, chunk, vs, idx, maxV, prev,
                   out, stopped, pcalls, runs, mem>>

MX_Pull ==
    /\ op = "MaxFunc" /\ pc = "start"
    /\ cur' = Pull1
    /\ pc' = "mx_first"
    /\ UNCHANGED <<args, captured, ilv, v, w, ok, chunk, vs, idx, agg,
                   pos, reqs, fres, out, stopped, pcalls, runs, mem>>

MX_First ==
    /\ op = "MaxFunc" /\ pc = "mx_first"
    /\ Request(1)
    /\ maxV' = SeqNext(1).v
    /\ ok' = SeqNext(1).ok
    /\ IF ~ok' THEN ret' = [v |-> maxV', b |-> FALSE] /\ Return
               ELSE ret' = ret /\ pc' = "mx_next" /\ cur' = cur
    /\ UNCHANGED <<args, captured, ilv, v, w, chunk, vs, idx, minV, prev,
                   out, stopped, pcalls, runs, mem>>

MX_Next ==
    /\ op = "MaxFunc" /\ pc = "mx_next"
    /\ Request(1)
    /\ v' = SeqNext(1).v
    /\ ok' = SeqNext(1).ok
    /\ IF ~ok'
          THEN maxV' = maxV /\ ret' = [v |-> maxV, b |-> TRUE] /\ Return
          ELSE /\ maxV' = MaxStep(cmp, v', maxV)
               /\ ret' = ret /\ pc' = "mx_next" /\ cur' = cur
    /\ UNCHANGED <<args, captured, ilv, w, chunk, vs, idx, minV, prev,
                   out, stopped, pcalls, runs, mem>>

SO_Pull ==
    /\ op = "IsSortedFunc" /\ pc = "start"
    /\ cur' = Pull1
    /\ pc' = "so_first"
    /\ UNCHANGED <<args, captured, ilv, v, w, ok, chunk, vs, idx, agg,
                   pos, reqs, fres, out, stopped, pcalls, runs, mem>>

SO_First ==
    /\ op = "IsSortedFunc" /\ pc = "so_first"
    /\ Request(1)
    /\ prev' = SeqNext(1).v
    /\ ok' = SeqNext(1).ok
    /\ IF ~ok' THEN ret' = [v |-> Zero, b |-> TRUE] /\ Return
               ELSE ret' = ret /\ pc' = "so_next" /\ cur' = cur
    /\ UNCHANGED <<args, captured, ilv, v, w, chunk, vs, idx, minV, maxV,
                   out, stopped, pcalls, runs, mem>>

SO_Next ==
    /\ op = "IsSortedFunc" /\ pc = "so_next"
    /\ Request(1)
    /\ v' = SeqNext(1).v
    /\ ok' = SeqNext(1).ok
    /\ IF ~ok'
          THEN prev' = prev /\ ret' = [v |-> Zero, b |-> TRUE] /\ Return
          ELSE IF OutOfOrder(cmp, prev, v')
                  THEN /\ prev' = prev
                       /\ ret' = [v |-> Zero, b |-> FALSE] /\ Return
                  ELSE /\ prev' = v'
                       /\ ret' = ret /\ pc' = "so_next" /\ cur' = cur
    /\ UNCHANGED <<args, captured, ilv, w, chunk, vs, idx, minV, maxV,
                   out, stopped, pcalls, runs, mem>>

NextMinMax == MN_Pull \/ MN_First \/ MN_Next \/ MX_Pull \/ MX_First \/ MX_Next
NextIsSorted == SO_Pull \/ SO_First \/ SO_Next

\* ------------------------------------ a further traversal of the value
\* The sequence value is ranged over once more.  Every traversal starts
\* the traversal function afresh, on inputs that start afresh; what the
\* closures of Take, Drop and Chunks captured (n, i) belongs to the value
\* and is carried over.
Retraverse ==
    /\ pc = "done"
    /\ Len(runs) < MaxRuns - 1
    /\ runs' = Append(runs, [out |-> out, stopped |-> stopped])
    /\ pc' = "start"
    /\ isSeq1Turn' = FALSE
    /\ v' = Zero /\ w' = Zero /\ ok' = FALSE
    /\ k' = 0 /\ lastK' = 0
    /\ vs' = <<>>
    /\ vsp' = NilSlice /\ heap' = <<>> /\ groups' = <<>>
    /\ idx' = 0
    /\ minV' = Zero /\ maxV' = Zero /\ prev' = Zero
    /\ ret' = [v |-> Zero, b |-> FALSE]
    /\ cur' = NoCursor
    /\ pos' = [j \in 1..2 |-> 0]
    /\ reqs' = <<>>
    /\ fres' = <<>>
    /\ out' = <<>>
    /\ stopped' = FALSE
    /\ pcalls' = 0
    /\ UNCHANGED <<args, captured>>

Next ==
    \/ NextInterleaveShortest \/ NextInterleaveLongest \/ NextZipShortest
    \/ NextChain \/ NextCycle \/ NextFlatten
    \/ NextTakeWhile \/ NextDropWhile \/ NextChunkBy
    \/ NextAllAny \/ NextMinMax \/ NextIsSorted

Spec == Init /\ [][Next]_vars

\* Several traversals of one value returned by Take, Drop, RepeatN, Chunks.
InitDerived ==
    /\ \E o \in DerivedOps : Args(o)
    /\ runs = <<>>
    /\ Idle

NextDerived == NextTakeWhile \/ NextDropWhile \/ NextChunkBy \/ Retraverse

SpecDerived == InitDerived /\ [][NextDerived]_vars

\* One traversal of DropWhile(seq, p) or Drop(seq, n).
InitDrop ==
    /\ \E o \in {"DropWhile", "Drop"} : Args(o)
    /\ runs = <<>>
    /\ Idle

SpecDrop == InitDrop /\ [][NextDropWhile]_vars

\* One traversal of Chain(Take(s, n), Drop(s, n)) with s = FromSlice(vs).
InitCompose ==
    /\ Args("ChainTakeDrop")
    /\ runs = <<>>
    /\ Idle

SpecCompose == InitCompose /\ [][NextChain]_vars

\* One traversal of WithFunc(f).
InitWithFunc ==
    /\ Args("WithFunc")
    /\ runs = <<>>
    /\ Idle

SpecWithFunc == InitWithFunc /\ [][NextWithFunc]_vars

\* One traversal of Cycle(seq); it is not suspended forever while it
\* can take a step to a different state.
InitCycle ==
    /\ Args("Cycle")
    /\ runs = <<>>
    /\ Idle

SpecCycle == InitCycle /\ [][NextCycle]_vars /\ WF_vars(NextCycle)

\* One traversal of Cycle(seq), seq being FromSlice(vs) or the value of
\* Take(FromSlice(vs), n), which yields its elements only once.
InitCycleOnce ==
    /\ \E o \in {"Cycle", "CycleTake"} : Args(o)
    /\ runs = <<>>
    /\ Idle

SpecCycleOnce == InitCycleOnce /\ [][NextCycle]_vars
\* =================================================================
\* Properties
\* =================================================================
At(sq, j) == IF j \in 1..Len(sq) THEN <<sq[j]>> ELSE <<>>
Complete == pc = "done" /\ ~stopped

\* a[1], b[1], a[2], b[2], ... at the positions 1..Len(o) of o
Alternating(o, a, b) ==
    \A j \in 1..Len(o) :
        <<o[j]>> = IF j % 2 = 1 THEN At(a, (j + 1) \div 2) ELSE At(b, j \div 2)

ISLen(m, l) == IF m <= l THEN 2 * m ELSE 2 * l + 1

\* C1: InterleaveShortest(a, b) gives the consumer a[0], b[0], a[1], b[1],
\* ... starting with a, and a traversal the consumer does not stop ends
\* at the first turn whose side is exhausted: it has then yielded 2*m
\* elements when m <= n and 2*n+1 elements when m > n.
C1_InterleaveShortest ==
    op = "InterleaveShortest" =>
        /\ Alternating(out, seq1, seq2)
        /\ Complete => Len(out) = ISLen(Len(seq1), Len(seq2))

C1_Witness ==
    /\ op = "InterleaveShortest" /\ Complete
    /\ Len(seq2) >= 1 /\ Len(seq1) >= Len(seq2) + 2
    /\ Len(out) = 2 * Len(seq2) + 1

\* The output of InterleaveLongest at position j (from 1).
ILAt(a, b, j) ==
    IF j <= 2 * Min2(Len(a), Len(b))
       THEN (IF j % 2 = 1 THEN At(a, (j + 1) \div 2) ELSE At(b, j \div 2))
       ELSE IF Len(a) > Len(b) THEN At(a, j - Len(b)) ELSE At(b, j - Len(a))

\* C2: InterleaveLongest(a, b) alternates a[i], b[i] for the first
\* 2*min(m,n) outputs and then yields the rest of the longer side in
\* order; a traversal the consumer does not stop yields m+n elements.
C2_InterleaveLongest ==
    op = "InterleaveLongest" =>
        /\ \A j \in 1..Len(out) : <<out[j]>> = ILAt(seq1, seq2, j)
        /\ Complete => Len(out) = Len(seq1) + Len(seq2)

C2_Witness ==
    /\ op = "InterleaveLongest" /\ Complete
    /\ Len(seq1) >= 1 /\ Len(seq2) >= Len(seq1) + 2
    /\ Len(out) = Len(seq1) + Len(seq2)

\* C3: ZipShortest(a, b) yields the pairs (a[i], b[i]) in increasing i and
\* nothing else; a traversal the consumer does not stop yields
\* min(length(a), length(b)) pairs, none when a side is empty.
C3_ZipShortest ==
    op = "ZipShortest" =>
        /\ \A j \in 1..Len(out) :
              /\ j <= Min2(Len(seq1), Len(seq2))
              /\ out[j] = <<seq1[j], seq2[j]>>
        /\ Complete => Len(out) = Min2(Len(seq1), Len(seq2))

C3_Witness ==
    /\ op = "ZipShortest" /\ Complete
    /\ Len(seq1) >= 2 /\ Len(seq2) > Len(seq1)
    /\ Len(out) = Len(seq1)
    /\ seq1[1] # seq2[1]

RECURSIVE Concat(_)
Concat(gs) == IF gs = <<>> THEN <<>> ELSE Head(gs) \o Concat(Tail(gs))

IsPrefix(a, b) == Len(a) <= Len(b) /\ SubSeq(b, 1, Len(a)) = a

\* C4: the groups ChunkBy(s, key) yields are nonempty, hold elements of
\* one key each, differ in key from the group before, and concatenate to
\* a prefix of s, to the whole of s when the traversal was not stopped;
\* an empty s yields no group.
C4_ChunkBy ==
    op = "ChunkBy" =>
        /\ \A g \in 1..Len(out) :
              /\ out[g] # <<>>
              /\ \A x \in 1..Len(out[g]) : key[out[g][x]] = key[out[g][1]]
              /\ g > 1 => key[out[g][1]] # key[out[g - 1][1]]
        /\ IsPrefix(Concat(out), seq1)
        /\ Complete => Concat(out) = seq1
        /\ seq1 = <<>> => out = <<>>

C4_Witness ==
    /\ op = "ChunkBy" /\ Complete
    /\ Len(out) >= 2
    /\ Len(out[1]) >= 2
    /\ Concat(out) = seq1

EarlyStopOps == {"Chain", "Cycle", "Flatten", "TakeWhile", "DropWhile",
                 "InterleaveShortest", "InterleaveLongest", "ZipShortest",
                 "ChunkBy"}

\* C5: once the consumer has answered "stop", the combinator asks none
\* of its inputs for a further element and does not invoke the consumer
\* again; a stop during the first sequence of Chain(a, b) leaves b never
\* asked for an element.
C5_EarlyStop ==
    /\ [][(op \in EarlyStopOps /\ stopped)
            => (reqs' = reqs /\ out' = out /\ stopped')]_vars
    /\ []((op = "Chain" /\ stopped /\ Len(out) <= Len(seq1))
            => \A j \in 1..Len(reqs) : reqs[j] # 2)

C5_Witness ==
    /\ op = "Chain" /\ stopped /\ pc = "done"
    /\ Len(out) < Len(seq1) /\ Len(seq2) > 0

CursorOps == {"DropWhile", "InterleaveShortest", "InterleaveLongest",
              "ZipShortest", "ChunkBy", "MinFunc", "MaxFunc",
              "IsSortedFunc"}

\* C6: when a traversal or call of a cursor-using function has ended,
\* on whatever path, every cursor it opened has been released and none
\* is open.
C6_CursorsReleased ==
    (op \in CursorOps /\ pc = "done") =>
        /\ cur[1] = "released"
        /\ op \in TwoInputOps => cur[2] = "released"
        /\ \A j \in 1..2 : cur[j] # "open"

C6_Witness ==
    /\ op = "ZipShortest" /\ Complete
    /\ pos[2] = Len(seq2) /\ pos[1] < Len(seq1)
    /\ cur[1] = "released" /\ cur[2] = "released"

\* The states in which the two cursors are advanced in turn.
InTurnPhase ==
    \/ op = "InterleaveShortest" /\ pc \in {"is_next", "is_yield"}
    \/ op = "InterleaveLongest" /\ pc \in {"il_next", "il_yield"}
    \/ op = "ZipShortest" /\ pc \in {"zs_next1", "zs_next2", "zs_yield"}

\* C7: while the two cursors are advanced in turn, the requests go
\* seq1, seq2, seq1, seq2, ..., seq1 has produced as many elements as
\* seq2 or one more, and the interleaving functions issue a request only
\* when every element pulled before has been delivered and the consumer
\* has not stopped.
C7_TurnOrder ==
    /\ [](InTurnPhase =>
            /\ \A j \in 1..Len(reqs) : reqs[j] = IF j % 2 = 1 THEN 1 ELSE 2
            /\ pos[1] - pos[2] \in {0, 1})
    /\ [][(InTurnPhase /\ op # "ZipShortest" /\ reqs' # reqs)
            => (Len(out) = pos[1] + pos[2] /\ ~stopped)]_vars

C7_Witness ==
    /\ op = "InterleaveLongest" /\ pc = "il_yield"
    /\ reqs = <<1, 2, 1>> /\ pos[1] = 2 /\ pos[2] = 1
    /\ Len(out) = 2

\* C10: the outputs of Cycle(s) are s[i mod length(s)] for i = 0, 1, ...;
\* over a nonempty s the traversal ends only when the consumer stops;
\* over an empty s it yields nothing and ends.
C10_Cycle ==
    /\ [](op = "Cycle" =>
            /\ \A j \in 1..Len(out) :
                  /\ seq1 # <<>>
                  /\ out[j] = seq1[((j - 1) % Len(seq1)) + 1]
            /\ (pc = "done" /\ seq1 # <<>>) => stopped)
    /\ (op = "Cycle" /\ seq1 = <<>>) ~> (pc = "done" /\ out = <<>>)

C10_Witness ==
    /\ op = "Cycle" /\ ~stopped
    /\ Len(seq1) >= 2
    /\ Len(out) >= 2 * Len(seq1) + 1

\* C8 as stated: every traversal of one value returned by Take, Drop or
\* RepeatN that runs to completion yields the same list, and a traversal
\* the consumer stopped yields a prefix of it.
C8_SameOnRetraversal ==
    (op \in {"Take", "Drop", "RepeatN"} /\ Complete) =>
        \A r \in 1..Len(runs) :
            IF runs[r].stopped THEN IsPrefix(runs[r].out, out)
                               ELSE runs[r].out = out

\* C9 as stated: every traversal of one value returned by Chunks that
\* runs to completion yields the same groups.
C9_SameChunksOnRetraversal ==
    (op = "Chunks" /\ Complete) =>
        \A r \in 1..Len(runs) : ~runs[r].stopped => runs[r].out = out

\* The index of the first element of sq that does not pass q, Len(sq)+1
\* when every element passes.
FirstFail(sq, q) ==
    IF \E j \in 1..Len(sq) : ~q[sq[j]]
       THEN CHOOSE j \in 1..Len(sq) :
                ~q[sq[j]] /\ \A x \in 1..(j - 1) : q[sq[x]]
       ELSE Len(sq) + 1

\* C11: TakeWhile(s, p) yields the longest prefix of s whose elements all
\* pass p and ends, without yielding it, at the first element that fails;
\* DropWhile(s, p) yields the rest of s from that element on, nothing
\* when every element passes; the two lists together are s.
C11_TakeDropWhile ==
    /\ op = "TakeWhile" =>
          /\ IsPrefix(out, SubSeq(seq1, 1, FirstFail(seq1, p) - 1))
          /\ Complete =>
                /\ out = SubSeq(seq1, 1, FirstFail(seq1, p) - 1)
                /\ pos[1] = Min2(FirstFail(seq1, p), Len(seq1))
    /\ op = "DropWhile" =>
          /\ IsPrefix(out, SubSeq(seq1, FirstFail(seq1, p), Len(seq1)))
          /\ Complete =>
                /\ out = SubSeq(seq1, FirstFail(seq1, p), Len(seq1))
                /\ FirstFail(seq1, p) > Len(seq1) => out = <<>>

C11_Witness ==
    /\ op = "DropWhile" /\ Complete
    /\ Len(seq1) = 3 /\ FirstFail(seq1, p) = 2
    /\ p[seq1[3]]
    /\ out = SubSeq(seq1, 2, 3)

\* ceil(a / b) for b >= 1.
CeilDiv(a, b) == (a + b - 1) \div b

\* C13: for size >= 1, the first traversal of Chunks(s, size) yields
\* ceil(L/size) groups when it completes; group g (counted from 1) holds
\* s[(g-1)*size + 1 .. min(g*size, L)] in order, so every group but the
\* last has size elements and the last has between 1 and size.  While the
\* traversal runs, the groups yielded so far are the first groups of that
\* list.
C13_Chunks ==
    (op = "Chunks" /\ runs = <<>>) =>
        /\ Len(out) <= CeilDiv(Len(seq1), s)
        /\ \A g \in 1..Len(out) :
               /\ out[g] = SubSeq(seq1, (g - 1) * s + 1,
                                  Min2(g * s, Len(seq1)))
               /\ Len(out[g]) \in 1..s
               /\ g < CeilDiv(Len(seq1), s) => Len(out[g]) = s
        /\ Complete => Len(out) = CeilDiv(Len(seq1), s)

C13_Witness ==
    /\ op = "Chunks" /\ runs = <<>> /\ Complete
    /\ Len(seq1) = 3 /\ s = 2
    /\ out = <<SubSeq(seq1, 1, 2), SubSeq(seq1, 3, 3)>>

\* The index of the first element of sq that no element of sq compares
\* strictly less than (sign = -1) or strictly greater than (sign = 1).
FirstExtreme(sq, c, sign) ==
    CHOOSE j \in 1..Len(sq) :
        /\ \A x \in 1..Len(sq) : Cmp(c, sq[x], sq[j]) # sign
        /\ \A y \in 1..(j - 1) :
               \E x \in 1..Len(sq) : Cmp(c, sq[x], sq[y]) = sign

FirstUnsorted(sq, c) ==
    IF \E j \in 2..Len(sq) : Cmp(c, sq[j - 1], sq[j]) > 0
       THEN CHOOSE j \in 2..Len(sq) :
                /\ Cmp(c, sq[j - 1], sq[j]) > 0
                /\ \A x \in 2..(j - 1) : Cmp(c, sq[x - 1], sq[x]) <= 0
       ELSE Len(sq) + 1

\* C16: when IsSortedFunc(s, cmp) has returned, its result is true iff
\* cmp(prev, v) <= 0 for every pair of adjacent elements of s (so it is
\* true for an empty and a one-element s), and when the result is false
\* the last element requested is the second one of the first
\* out-of-order pair.
C16_IsSortedFunc ==
    (op = "IsSortedFunc" /\ pc = "done") =>
        /\ ret.b = (\A j \in 2..Len(seq1) :
                        Cmp(cmp, seq1[j - 1], seq1[j]) <= 0)
        /\ Len(seq1) <= 1 => ret.b
        /\ ~ret.b => /\ pos[1] = FirstUnsorted(seq1, cmp)
                      /\ Len(reqs) = FirstUnsorted(seq1, cmp)

\* False on an input whose first out-of-order pair is not the last pair;
\* the pair before it is a tie.
C16_Witness ==
    /\ op = "IsSortedFunc" /\ pc = "done" /\ ~ret.b
    /\ Len(seq1) = 3 /\ pos[1] = 2
    /\ cmp = "rev" /\ seq1 = <<0, 1, 1>>

\* The index of the first element of sq that passes q, Len(sq)+1 when
\* none does.
FirstPass(sq, q) == FirstFail(sq, [x \in DOMAIN q |-> ~q[x]])

\* The index of the element that determines the result of All, Any or
\* None: the first failing one for All, the first passing one otherwise.
Decisive ==
    IF op = "All" THEN FirstFail(seq1, p) ELSE FirstPass(seq1, p)

\* C15: All is true iff every element passes p, Any is true iff some
\* element passes p, None is the negation of Any (so on an empty input
\* All and None are true and Any is false).  No element after the
\* decisive one is ever requested and p is evaluated on no element after
\* it: p is called once per element up to the decisive one.
C15_AllAnyNone ==
    op \in {"All", "Any", "None"} =>
        /\ pos[1] <= Min2(Decisive, Len(seq1))
        /\ pcalls <= Min2(Decisive, Len(seq1))
        /\ pc = "done" =>
              /\ op = "All" => ret.b = (\A j \in 1..Len(seq1) : p[seq1[j]])
              /\ op = "Any" => ret.b = (\E j \in 1..Len(seq1) : p[seq1[j]])
              /\ op = "None" =>
                    ret.b = ~(\E j \in 1..Len(seq1) : p[seq1[j]])
              /\ seq1 = <<>> => ret.b = (op # "Any")
              /\ pos[1] = Min2(Decisive, Len(seq1))
              /\ pcalls = Min2(Decisive, Len(seq1))
              /\ Len(reqs) = Decisive

\* None returned false at the second of three elements, the third one
\* would pass p as well.
C15_Witness ==
    /\ op = "None" /\ pc = "done" /\ ~ret.b
    /\ Len(seq1) = 3 /\ Decisive = 2 /\ p[seq1[3]]
    /\ pos[1] = 2 /\ pcalls = 2

\* The index of the first element on which the predicate of DropWhile or
\* Drop is false in a first traversal: Drop's closure is false at call
\* number n + 1.
DropEnd == IF op = "Drop" THEN n0 + 1 ELSE FirstFail(seq1, p)

\* C20: DropWhile(s, p) evaluates p on the elements of s in order, up to
\* and including the first one for which p is false and on none after
\* it: once an element has been yielded the number of evaluations stays
\* at the index of that element, and every later element is yielded
\* whether or not it would satisfy p.  With Drop(s, n), p is evaluated at
\* most n + 1 times, the counter goes down by one per dropped element and
\* never below 0.
C20_DropWhileCalls ==
    Impl(op) = "DropWhile" =>
        /\ pcalls <= Min2(DropEnd, Len(seq1))
        /\ pcalls \in {pos[1] - 1, pos[1]} \/ pcalls = DropEnd
        /\ out # <<>> => pcalls = DropEnd
        /\ IsPrefix(out, SubSeq(seq1, DropEnd, Len(seq1)))
        /\ Complete =>
              /\ pcalls = Min2(DropEnd, Len(seq1))
              /\ out = SubSeq(seq1, DropEnd, Len(seq1))
        /\ op = "Drop" =>
              /\ pcalls <= n0 + 1
              /\ n >= 0
              /\ n = n0 - Min2(pcalls, n0)
              /\ out # <<>> => n = 0

\* Drop(s, 1) on three elements: two evaluations, the counter at 0, the
\* last two elements yielded.
C20_Witness ==
    /\ op = "Drop" /\ Complete
    /\ Len(seq1) = 3 /\ n0 = 1
    /\ pcalls = 2 /\ n = 0
    /\ out = SubSeq(seq1, 2, 3)

\* No request has been made to input j yet.
NotAsked(j) == \A x \in 1..Len(reqs) : reqs[x] # j

\* C12: Chain(Take(s, n), Drop(s, n)) over a re-traversable s collects
\* to s.  When the chain turns to its second input, Take(s, n) has given
\* the first n elements of s (none for n = 0, all for n >= len(s)); the
\* rest of a complete collection, given by Drop(s, n), is s from index n
\* on (nothing for n >= len(s)).  A stopped traversal has collected a
\* prefix of s.
C12_ChainTakeDrop ==
    op = "ChainTakeDrop" =>
        /\ IsPrefix(out, seq1)
        /\ (pc = "ch_range2" /\ NotAsked(2)) =>
              out = SubSeq(seq1, 1, Min2(n0, Len(seq1)))
        /\ Complete =>
              /\ out = seq1
              /\ SubSeq(out, Min2(n0, Len(seq1)) + 1, Len(out))
                    = SubSeq(seq1, n0 + 1, Len(seq1))

\* Two elements came from Take(s, 2) and the third from Drop(s, 2), which
\* skipped two.
C12_Witness ==
    /\ op = "ChainTakeDrop" /\ Complete
    /\ Len(seq1) = 3 /\ n0 = 2
    /\ out = seq1
    /\ n = 0 /\ n2 = 0 /\ pcalls = 6

\* C17: in a traversal of WithFunc(f) the k-th element delivered is the
\* result of the k-th call of f; f has been called once per delivered
\* element plus at most once for the element about to be delivered, it is
\* not called while the consumer has not answered or after the consumer
\* said stop, and the traversal has ended only if the consumer said stop.
C17_WithFunc ==
    op = "WithFunc" =>
        /\ Len(out) <= Len(fres)
        /\ \A x \in 1..Len(out) : <<out[x]>> = At(fres, x)
        /\ Len(fres) = Len(out) + (IF pc = "gen_yield" THEN 1 ELSE 0)
        /\ stopped => Len(fres) = Len(out)
        /\ pc = "done" <=> stopped

\* Three elements delivered, not all the same; the consumer stopped at the
\* third.
C17_Witness ==
    /\ op = "WithFunc" /\ pc = "done" /\ stopped
    /\ Len(out) = 3 /\ out = fres
    /\ out[1] # out[2]

\* The elements a traversal of the retained group g yields now.
GroupNow(g) == SubSeq(heap[groups[g].arr], 1, groups[g].len)

\* C18: a group yielded by ChunkBy is a snapshot.  At every later moment
\* of the outer traversal, and after it has ended, traversing a retained
\* group yields the elements it held when it was yielded; no two groups
\* hold the same array, and no group holds the array the outer traversal
\* is still appending to.
C18_GroupSnapshot ==
    Impl(op) = "ChunkBy" =>
        /\ Len(groups) = Len(out)
        /\ \A g \in 1..Len(groups) :
               /\ groups[g].arr \in 1..Len(heap)
               /\ GroupNow(g) = At(out, g)[1]
               /\ \A h \in 1..Len(groups) :
                      h # g => groups[h].arr # groups[g].arr
               /\ pc # "done" => groups[g].arr # vsp.arr

\* Two groups were yielded and the traversal went on to fill a third
\* one; the array of the first group had room to spare.
C18_Witness ==
    /\ op = "ChunkBy" /\ pc = "cb_next"
    /\ Len(groups) = 2 /\ Len(vs) = 1
    /\ GroupNow(1) = out[1] /\ GroupNow(2) = out[2]
    /\ Len(heap[groups[2].arr]) > groups[2].len

\* =================================================================
\* Failing callbacks
\* A panic in a function of the caller unwinds the traversal function:
\* no statement after the call runs, the deferred calls do.
UnwindNoDefers(c) == c

\* The deferred stop calls run during the unwind.
Unwind(c) == RunDefers(c)

Panic ==
    /\ pc' = "panic"
    /\ cur' = Unwind(cur)

\* p(v) panics in the first loop of DropWhile.
PN_Pred ==
    /\ Impl(op) = "DropWhile" /\ pc = "dw_pred"
    /\ pcalls' = pcalls + 1
    /\ Panic
    /\ UNCHANGED <<args, captured, ilv, v, w, ok, chunk, vs, idx, agg,
                   pos, reqs, fres, out, stopped, runs, mem>>

\* key(v) panics in ChunkBy: after the first next() and the append, or
\* after a next() of the loop.
PN_Key ==
    /\ Impl(op) = "ChunkBy" /\ pc \in {"cb_first", "cb_next"}
    /\ HasNext(1)
    /\ Request(1)
    /\ v' = SeqNext(1).v
    /\ ok' = SeqNext(1).ok
    /\ IF pc = "cb_first"
          THEN /\ vs' = Append(vs, v')
               /\ vsp' = AppendSlice(heap, vsp, Len(vs), v').hdr
               /\ heap' = AppendSlice(heap, vsp, Len(vs), v').heap
          ELSE UNCHANGED <<vs, vsp, heap>>
    /\ Panic
    /\ UNCHANGED <<args, captured, ilv, w, chunk, idx, agg,
                   out, stopped, pcalls, runs, groups>>

\* cmp panics in the loop of MinFunc, MaxFunc or IsSortedFunc.
PN_Cmp ==
    /\ op \in CmpOps /\ pc \in {"mn_next", "mx_next", "so_next"}
    /\ HasNext(1)
    /\ Request(1)
    /\ v' = SeqNext(1).v
    /\ ok' = SeqNext(1).ok
    /\ Panic
    /\ UNCHANGED <<args, captured, ilv, w, chunk, vs, idx, agg,
                   out, stopped, pcalls, runs, mem>>

\* The consumer panics inside yield in InterleaveShortest,
\* InterleaveLongest or ZipShortest; it was handed the element.
PN_Yield ==
    /\ op \in TwoInputOps
    /\ pc \in {"is_yield", "il_yield", "il_drainyield", "zs_yield"}
    /\ out' = Append(out, IF op = "ZipShortest" THEN Pair(v, w) ELSE v)
    /\ Panic
    /\ UNCHANGED <<args, captured, ilv, v, w, ok, chunk, vs, idx, agg,
                   pos, reqs, fres, stopped, pcalls, runs, mem>>

NextPanic == PN_Pred \/ PN_Key \/ PN_Cmp \/ PN_Yield

\* The inputs of the two-input functions hold one value only here: the
\* values do not steer them.
Blanks == SeqsUpTo({Zero}, MaxLen)

InitPanic ==
    /\ \E o \in CursorOps : Args(o)
    /\ op \in TwoInputOps => seq1 \in Blanks /\ seq2 \in Blanks
    /\ runs = <<>>
    /\ Idle

NextCursorOps ==
    \/ NextInterleaveShortest \/ NextInterleaveLongest \/ NextZipShortest
    \/ NextDropWhile \/ NextChunkBy \/ NextMinMax \/ NextIsSorted
    \/ NextPanic

SpecPanic == InitPanic /\ [][NextCursorOps]_vars

\* C19: when a predicate, key function or comparator panics in
\* DropWhile, ChunkBy, MinFunc, MaxFunc or IsSortedFunc, or the consumer
\* panics in InterleaveShortest, InterleaveLongest or ZipShortest, the
\* function does not go on (no result, no further request, no further
\* element: the panic is the caller's) and every cursor it had opened
\* is released, none is left open.
C19_PanicReleases ==
    /\ [](pc = "panic" =>
            /\ op \in CursorOps
            /\ cur[1] = "released"
            /\ op \in TwoInputOps => cur[2] = "released"
            /\ \A j \in 1..2 : cur[j] # "open")
    /\ [][pc # "panic"]_vars

\* The consumer panicked in InterleaveLongest while both cursors were
\* open and elements were left on both sides.
C19_Witness ==
    /\ op = "InterleaveLongest" /\ pc = "panic"
    /\ Len(out) = 2
    /\ pos[1] < Len(seq1) /\ pos[2] < Len(seq2)
    /\ cur = [j \in 1..2 |-> "released"]

\* The number of requests made to input j.
Asked(j) == Cardinality({x \in 1..Len(reqs) : reqs[x] = j})

\* C21: at the end of a complete traversal of ZipShortest(a, b): when b
\* is shorter than a, len(b)+1 elements were pulled from a, the last of
\* them delivered to nobody, and b was pulled len(b) times and then asked
\* once more and found exhausted; when a is not longer than b, len(a)
\* elements were pulled from each side and the last request, the one
\* that found a exhausted, was not followed by a request to b.
C21_ZipPulls ==
    (op = "ZipShortest" /\ Complete) =>
        IF Len(seq2) < Len(seq1)
           THEN /\ pos[1] = Len(seq2) + 1
                /\ Asked(1) = Len(seq2) + 1
                /\ Len(out) = Len(seq2)
                /\ pos[2] = Len(seq2)
                /\ Asked(2) = Len(seq2) + 1
                /\ reqs[Len(reqs)] = 2
           ELSE /\ pos[1] = Len(seq1)
                /\ pos[2] = Len(seq1)
                /\ Asked(1) = Len(seq1) + 1
                /\ Asked(2) = Len(seq1)
                /\ reqs[Len(reqs)] = 1

\* b has one element, a has three: two were pulled from a, the second
\* one was dropped.
C21_Witness ==
    /\ op = "ZipShortest" /\ Complete
    /\ Len(seq1) = 3 /\ Len(seq2) = 1
    /\ pos = <<2, 1>> /\ Len(out) = 1
    /\ reqs = <<1, 2, 1, 2>>

\* C22: in the first traversal of Take(seq, n), run to completion, over a
\* source with more than n elements, n+1 elements are obtained from the
\* source and the first n of them yielded: the last one fails the
\* count-down and is dropped (so Take(seq, 0) obtains one element of a
\* nonempty seq).  Over a source with at most n elements all of them are
\* obtained and yielded, and the source is found exhausted.  Completing
\* RepeatN(v, n) = Take(WithFunc(f), n) calls f n+1 times and yields n
\* results.  No traversal obtains more than n+1 elements.
C22_TakeObtains ==
    /\ (op = "Take" /\ runs = <<>>) =>
          /\ pos[1] <= Min2(n0 + 1, Len(seq1))
          /\ Complete =>
                IF Len(seq1) > n0
                   THEN /\ pos[1] = n0 + 1
                        /\ Len(reqs) = n0 + 1
                        /\ pcalls = n0 + 1
                        /\ out = SubSeq(seq1, 1, n0)
                   ELSE /\ pos[1] = Len(seq1)
                        /\ Len(reqs) = Len(seq1) + 1
                        /\ pcalls = Len(seq1)
                        /\ out = seq1
    /\ (op = "RepeatN" /\ runs = <<>>) =>
          /\ Len(fres) <= n0 + 1
          /\ Complete =>
                /\ Len(fres) = n0 + 1
                /\ Len(out) = n0
                /\ out = SubSeq(fres, 1, n0)

\* Take(seq, 1) over three elements: two obtained, one yielded.
C22_Witness ==
    /\ op = "Take" /\ runs = <<>> /\ Complete
    /\ Len(seq1) = 3 /\ n0 = 1
    /\ pos[1] = 2 /\ Len(out) = 1

\* What the source of Cycle yields in its one traversal.
CycleSrc == IF op = "CycleTake" THEN SubSeq(seq1, 1, Min2(n0, Len(seq1)))
                                ELSE seq1

\* The source of Cycle was asked and had no element left.
SrcExhausted == Len(reqs) = Len(CycleSrc) + 1

\* C23: within one traversal of Cycle(seq) the source is traversed once.
\* In the first pass every element obtained is yielded and then appended
\* to the buffer, so buffer and output agree; the element on which the
\* consumer stops is not appended.  The source is asked once per element
\* and once more to find it exhausted, never again; from then on the
\* buffer holds the first pass unchanged and every output is the buffer
\* read round in order.  This holds over the value of Take as well, which
\* yields its elements only once.
C23_CycleOnce ==
    Impl(op) = "Cycle" =>
        /\ Len(reqs) <= Len(CycleSrc) + 1
        /\ pc \in {"start", "cy_range"} =>
              /\ vs = out
              /\ out = SubSeq(CycleSrc, 1, Len(out))
              /\ Len(reqs) = Len(out)
        /\ pc = "cy_yield" =>
              /\ vs = out
              /\ Len(reqs) = Len(out) + 1
              /\ <<v>> = At(CycleSrc, Len(out) + 1)
        /\ (pc = "done" /\ ~SrcExhausted) =>
              /\ stopped
              /\ Len(out) = Len(reqs)
              /\ vs = SubSeq(out, 1, Len(out) - 1)
              /\ out = SubSeq(CycleSrc, 1, Len(out))
        /\ SrcExhausted =>
              /\ pc \in {"cy_loop", "cy_reyield", "done"}
              /\ vs = CycleSrc
              /\ \A j \in 1..Len(out) :
                    /\ vs # <<>>
                    /\ out[j] = vs[((j - 1) % Len(vs)) + 1]
        /\ op = "CycleTake" => pos[1] <= Min2(n0 + 1, Len(seq1))

\* Cycle(Take(s, 2)) over three elements is in its third pass: the
\* source was asked three times and the count-down is at 0.
C23_Witness ==
    /\ op = "CycleTake" /\ pc = "cy_reyield"
    /\ Len(seq1) = 3 /\ n0 = 2 /\ n = 0
    /\ Len(reqs) = 3 /\ pos[1] = 3
    /\ Len(out) = 5 /\ seq1[1] # seq1[2]
====
